---- MODULE Spec2Model ----
(***************************************************************************)
(* Order validation and CEM approval workflow of the Yahoo MCP server:     *)
(*   automation/validators.py   OrderValidator                             *)
(*   automation/audit.py        AuditLogger                                *)
(*   slack/bot.py               cem_approve / cem_reject / cem_review      *)
(*   slack/agent.py, slack_app.py   the workflow that posts the card       *)
(* Money is kept in cents, dates are day numbers.                          *)
(***************************************************************************)
EXTENDS Integers, Sequences, FiniteSets, TLC

VARIABLES
    media_buys,       \* table media_buys: media_buy_id -> row
    packages,         \* table packages: sequence of rows
    package_formats,  \* table package_formats: sequence of rows
    products,         \* table products: product_id -> row
    principals,       \* table principals: principal_id -> row
    today,            \* datetime.now(timezone.utc).date()
    validation,       \* the last validate_order call: its arguments and its result
    audit_log,        \* table audit_log: sequence of rows, in insertion order
    next_uuid,        \* source of the uuid.uuid4() values of the rows written
    cards,            \* the approval card message of each order, as Slack shows it
    said,             \* plain-text messages posted with say(text=...)
    handlers,         \* the actions taken on cards: open modals and running handlers
    workflow,         \* per order: position of the CEM workflow run
    pending_cem_summary, \* SlackAdvertisingAgent._pending_cem_summary
    last_log,         \* the last call made on an AuditLogger directly: what it returned
    last_summary,     \* the last call of generate_summary made directly: inputs and result
    connections,      \* the datastore connections of the operations followed one by one
    auth,             \* the DataCloudAuthService singleton, its clock and its callers
    chat              \* the chat turns of the Slack agent, per conversation

\* The variables of the components that are followed on their own
unitvars == <<last_log, last_summary, connections, auth, chat>>
dbvars == <<media_buys, packages, package_formats, products, principals, today>>
wfvars == <<audit_log, next_uuid, cards, said, handlers, workflow,
            pending_cem_summary, last_log, last_summary, connections,
          auth, chat>>
vars == <<media_buys, packages, package_formats, products, principals, today,
          validation, audit_log, next_uuid, cards, said, handlers,
          workflow, pending_cem_summary, last_log, last_summary, connections,
          auth, chat>>

----------------------------------------------------------------------------
(* Bounds of the model *)

MaxPackages == 2

MaxFormats == 2

MaxHandlers == 2

(* Identifiers *)

MediaBuyIds == {"mb1", "mb2"}

MissingMediaBuyId == "mb_missing"

Actors == {"alice", "bob"}

Texts == {"too_expensive"}

None == "None"

----------------------------------------------------------------------------
(* Small helpers *)

Range(s) == {s[i] : i \in DOMAIN s}

SeqsUpTo(S, n) == UNION {[1..k -> S] : k \in 0..n}

----------------------------------------------------------------------------
(* OrderValidator *)

CheckNames == <<"media_buy_exists", "products_exist", "formats_exist",
                "principal_authorized", "budget_limits", "flight_dates">>

ValidationResult(name, ok, msg) ==
    [check_name |-> name, passed |-> ok, message |-> msg,
     invalid |-> <<>>, valid |-> <<>>, issues |-> <<>>]

\* A check's lookup fails when the validator has no connection
\* (self.conn is None) or when the query itself raises.
LookupRaises(conn_ok, raising, name) == ~conn_ok \/ name \in raising

validate_media_buy_exists(id, conn_ok, raising) ==
    IF LookupRaises(conn_ok, raising, "media_buy_exists")
    THEN ValidationResult("media_buy_exists", FALSE, "Error checking media_buy")
    ELSE IF id \in DOMAIN media_buys
         THEN ValidationResult("media_buy_exists", TRUE, "Media buy found")
         ELSE ValidationResult("media_buy_exists", FALSE, "Media buy not found")

\* Variant: the LEFT JOIN without its AND pr.is_active = true
ProductRowsAnyProduct(id) ==
    LET mine == SelectSeq(packages, LAMBDA p : p.media_buy_id = id)
    IN  [i \in 1..Len(mine) |->
            [product_id |-> mine[i].product_id,
             status |-> IF mine[i].product_id \in DOMAIN products
                        THEN "valid" ELSE "invalid"]]

\* SELECT p.product_id, CASE ... 'valid' / 'invalid'
\* FROM packages p LEFT JOIN products pr ON ... AND pr.is_active = true
ProductRows(id) ==
    LET mine == SelectSeq(packages, LAMBDA p : p.media_buy_id = id)
    IN  [i \in 1..Len(mine) |->
            [product_id |-> mine[i].product_id,
             status |-> IF mine[i].product_id \in DOMAIN products
                           /\ products[mine[i].product_id].is_active
                        THEN "valid" ELSE "invalid"]]

validate_products_exist(id, conn_ok, raising) ==
    IF LookupRaises(conn_ok, raising, "products_exist")
    THEN ValidationResult("products_exist", FALSE, "Error validating products")
    ELSE LET rows == ProductRows(id)
             bad  == SelectSeq(rows, LAMBDA r : r.status = "invalid")
             good == SelectSeq(rows, LAMBDA r : r.status = "valid")
             invalid == [i \in 1..Len(bad) |-> bad[i].product_id]
             valid == [i \in 1..Len(good) |-> good[i].product_id]
         IN  IF rows = <<>>
             THEN ValidationResult("products_exist", FALSE,
                                   "No packages found for this media buy")
             ELSE IF invalid # <<>>
             THEN [ValidationResult("products_exist", FALSE, "Invalid products")
                      EXCEPT !.invalid = invalid, !.valid = valid]
             ELSE [ValidationResult("products_exist", TRUE, "All products validated")
                      EXCEPT !.valid = valid]

\* Valid format IDs of the CEM check
valid_formats ==
    {"display_300x250", "display_728x90", "display_160x600", "display_320x50",
     "video_16x9_15s", "video_16x9_30s", "video_9x16_15s",
     "native_content_feed", "native_in_stream"}

\* Variant: the format lookup without its WHERE p.media_buy_id = id
FormatRowsOfAllOrders(id) ==
    [i \in 1..Len(package_formats) |-> package_formats[i].format_id]

\* SELECT pf.format_id FROM package_formats pf JOIN packages p
\* ON pf.package_id = p.id WHERE p.media_buy_id = id
FormatRows(id) ==
    LET joined == SelectSeq(package_formats,
                    LAMBDA pf : \E i \in DOMAIN packages :
                                   /\ packages[i].id = pf.package_id
                                   /\ packages[i].media_buy_id = id)
    IN  [i \in 1..Len(joined) |-> joined[i].format_id]

validate_formats_exist(id, conn_ok, raising) ==
    IF LookupRaises(conn_ok, raising, "formats_exist")
    THEN ValidationResult("formats_exist", FALSE, "Error validating formats")
    ELSE LET format_ids == FormatRows(id)
             invalid == SelectSeq(format_ids, LAMBDA f : f \notin valid_formats)
         IN  IF format_ids = <<>>
             THEN ValidationResult("formats_exist", TRUE,
                                   "No package formats to validate (optional)")
             ELSE IF invalid # <<>>
             THEN [ValidationResult("formats_exist", FALSE, "Invalid formats")
                      EXCEPT !.invalid = invalid]
             ELSE [ValidationResult("formats_exist", TRUE, "All formats validated")
                      EXCEPT !.valid = format_ids]

\* FROM media_buys mb JOIN principals p ON mb.principal_id = p.principal_id
\* WHERE mb.media_buy_id = id
PrincipalJoined(id) ==
    /\ id \in DOMAIN media_buys
    /\ media_buys[id].principal_id \in DOMAIN principals

validate_principal_authorized(id, conn_ok, raising) ==
    IF LookupRaises(conn_ok, raising, "principal_authorized")
    THEN ValidationResult("principal_authorized", FALSE, "Error validating principal")
    ELSE IF ~PrincipalJoined(id)
    THEN ValidationResult("principal_authorized", FALSE,
                          "Principal not found or not linked")
    ELSE IF ~principals[media_buys[id].principal_id].is_active
    THEN ValidationResult("principal_authorized", FALSE, "Principal is not active")
    ELSE ValidationResult("principal_authorized", TRUE, "Principal authorized")

\* CASE WHEN p.access_level = 'enterprise' THEN 1000000
\*      WHEN p.access_level = 'preferred' THEN 500000 ELSE 100000 END, in cents
max_budget(access_level) ==
    IF access_level = "enterprise" THEN 1000000 * 100
    ELSE IF access_level = "preferred" THEN 500000 * 100
    ELSE 100000 * 100

\* Variant: budget >= max_budget in place of budget > max_budget
validate_budget_limits_below(id, conn_ok, raising) ==
    IF LookupRaises(conn_ok, raising, "budget_limits")
    THEN ValidationResult("budget_limits", FALSE, "Error validating budget")
    ELSE IF ~PrincipalJoined(id)
    THEN ValidationResult("budget_limits", FALSE,
                          "Could not retrieve budget information")
    ELSE LET budget == media_buys[id].total_budget
             level == principals[media_buys[id].principal_id].access_level
         IN  IF budget >= max_budget(level)
             THEN ValidationResult("budget_limits", FALSE, "Budget exceeds limit")
             ELSE ValidationResult("budget_limits", TRUE, "Budget within limit")

validate_budget_limits(id, conn_ok, raising) ==
    IF LookupRaises(conn_ok, raising, "budget_limits")
    THEN ValidationResult("budget_limits", FALSE, "Error validating budget")
    ELSE IF ~PrincipalJoined(id)
    THEN ValidationResult("budget_limits", FALSE,
                          "Could not retrieve budget information")
    ELSE LET budget == media_buys[id].total_budget
             level == principals[media_buys[id].principal_id].access_level
         IN  IF budget > max_budget(level)
             THEN ValidationResult("budget_limits", FALSE, "Budget exceeds limit")
             ELSE ValidationResult("budget_limits", TRUE, "Budget within limit")

\* Variant: a start date in the past is allowed
validate_flight_dates_any_start(id, conn_ok, raising) ==
    IF LookupRaises(conn_ok, raising, "flight_dates")
    THEN ValidationResult("flight_dates", FALSE, "Error validating dates")
    ELSE IF id \notin DOMAIN media_buys
    THEN ValidationResult("flight_dates", FALSE, "Could not retrieve flight dates")
    ELSE LET start_date == media_buys[id].flight_start_date
             end_date == media_buys[id].flight_end_date
             issues == IF start_date >= end_date
                       THEN <<"Start date must be before end date">> ELSE <<>>
         IN  IF issues # <<>>
             THEN [ValidationResult("flight_dates", FALSE, "issues")
                      EXCEPT !.issues = issues]
             ELSE ValidationResult("flight_dates", TRUE, "Flight dates valid")

validate_flight_dates(id, conn_ok, raising) ==
    IF LookupRaises(conn_ok, raising, "flight_dates")
    THEN ValidationResult("flight_dates", FALSE, "Error validating dates")
    ELSE IF id \notin DOMAIN media_buys
    THEN ValidationResult("flight_dates", FALSE, "Could not retrieve flight dates")
    ELSE LET start_date == media_buys[id].flight_start_date
             end_date == media_buys[id].flight_end_date
             issues ==
                (IF start_date >= end_date
                 THEN <<"Start date must be before end date">> ELSE <<>>)
                \o (IF start_date < today
                    THEN <<"Start date is in the past">> ELSE <<>>)
         IN  IF issues # <<>>
             THEN [ValidationResult("flight_dates", FALSE, "issues")
                      EXCEPT !.issues = issues]
             ELSE ValidationResult("flight_dates", TRUE, "Flight dates valid")

\* Variant: any(...) in place of all(...)
any_passed(checks) == \E i \in DOMAIN checks : checks[i].passed

\* all(check.passed for check in checks)
all_passed(checks) == \A i \in DOMAIN checks : checks[i].passed

\* Variant: checks without their try/except, so that the first lookup that
\* raises ends the run and the checks after it are never made
validate_order_unguarded(id, conn_ok, raising) ==
    LET every == <<validate_media_buy_exists(id, conn_ok, raising),
                   validate_products_exist(id, conn_ok, raising),
                   validate_formats_exist(id, conn_ok, raising),
                   validate_principal_authorized(id, conn_ok, raising),
                   validate_budget_limits(id, conn_ok, raising),
                   validate_flight_dates(id, conn_ok, raising)>>
        raised == {i \in DOMAIN every : LookupRaises(conn_ok, raising, CheckNames[i])}
        made == IF raised = {} THEN Len(every)
                ELSE (CHOOSE i \in raised : \A j \in raised : i <= j) - 1
        checks == SubSeq(every, 1, made)
        failed == SelectSeq(checks, LAMBDA c : ~c.passed)
    IN  [media_buy_id |-> id,
         all_passed |-> all_passed(checks),
         checks |-> checks,
         passed_count |-> Len(checks) - Len(failed),
         failed |-> [i \in 1..Len(failed) |-> failed[i].check_name]]

validate_order(id, conn_ok, raising) ==
    LET checks == <<validate_media_buy_exists(id, conn_ok, raising),
                    validate_products_exist(id, conn_ok, raising),
                    validate_formats_exist(id, conn_ok, raising),
                    validate_principal_authorized(id, conn_ok, raising),
                    validate_budget_limits(id, conn_ok, raising),
                    validate_flight_dates(id, conn_ok, raising)>>
        failed == SelectSeq(checks, LAMBDA c : ~c.passed)
    IN  [media_buy_id |-> id,
         all_passed |-> all_passed(checks),
         checks |-> checks,
         passed_count |-> Len(checks) - Len(failed),
         failed |-> [i \in 1..Len(failed) |-> failed[i].check_name]]

\* get_order_details: None when a lookup raises or the join has no row
\* (<<>> stands for None, <<d>> for the dict d)
get_order_details(id, lookup_ok) ==
    IF lookup_ok /\ PrincipalJoined(id)
    THEN <<[media_buy_id |-> id, status |-> media_buys[id].status,
            total_budget |-> media_buys[id].total_budget]>>
    ELSE <<>>

----------------------------------------------------------------------------
(* The datastore *)

ProductIds == {"prod_active", "prod_inactive", "prod_missing"}

FormatChoices == {"display_300x250", "video_preroll_640x480"}

AccessLevels == {"standard", "preferred", "enterprise"}

BudgetChoices == {max_budget(l) : l \in AccessLevels}
                 \cup {max_budget(l) + 1 : l \in AccessLevels}

\* Flight dates as day numbers around `today`: start in the past, a valid
\* flight, start not before end, and both defects at once
FlightChoices == {<<1, 2>>, <<2, 3>>, <<3, 3>>, <<1, 1>>}

\* The principal of the order: each access level, and one inactive principal
PrincipalChoices ==
    {[access_level |-> l, is_active |-> TRUE] : l \in AccessLevels}
    \cup {[access_level |-> "standard", is_active |-> FALSE]}

MediaBuyRow(budget, principal, start, end, st) ==
    [total_budget |-> budget, principal_id |-> principal,
     flight_start_date |-> start, flight_end_date |-> end, status |-> st]

\* The master table of products: one active, one inactive, one absent
ProductTable ==
    ("prod_active" :> [is_active |-> TRUE])
    @@ ("prod_inactive" :> [is_active |-> FALSE])

\* mb2 is a second order with a package and a format of its own
OtherOrder == MediaBuyRow(max_budget("standard") + 1, "nike", 2, 3, "pending")

OtherPackages ==
    <<[id |-> <<"uuid", 0>>, package_id |-> <<"pkg", 0>>, media_buy_id |-> "mb2",
       product_id |-> "prod_inactive"]>>

OtherFormats == <<[package_id |-> <<"uuid", 0>>, format_id |-> "video_preroll_640x480"]>>

NoValidation == [media_buy_id |-> None, conn_ok |-> TRUE, raising |-> {},
                 result |-> [media_buy_id |-> None, all_passed |-> FALSE,
                             checks |-> <<>>, passed_count |-> 0, failed |-> <<>>]]

\* Faults of one validate_order call: no connection at all, or the lookup
\* of at most one check raises
FaultChoices ==
    {[conn_ok |-> FALSE, raising |-> {}], [conn_ok |-> TRUE, raising |-> {}]}
    \cup {[conn_ok |-> TRUE, raising |-> {CheckNames[i]}] : i \in DOMAIN CheckNames}

\* Datastore contents the validator can meet: order mb1 with any budget,
\* flight dates, principal, packages and attached formats
InitDatastore ==
    /\ \E budget \in BudgetChoices, flight \in FlightChoices :
          media_buys = ("mb1" :> MediaBuyRow(budget, "nike", flight[1], flight[2],
                                              "pending"))
                       @@ ("mb2" :> OtherOrder)
    /\ \E prods \in SeqsUpTo(ProductIds, MaxPackages) :
          packages = [i \in 1..Len(prods) |->
                         [id |-> <<"uuid", i>>, package_id |-> <<"pkg", i>>,
                          media_buy_id |-> "mb1", product_id |-> prods[i]]]
                     \o OtherPackages
    /\ \E fmts \in SeqsUpTo(FormatChoices, MaxFormats) :
          package_formats =
              (IF Len(packages) > Len(OtherPackages)
               THEN [i \in 1..Len(fmts) |->
                        [package_id |->
                            <<"uuid", 1 + ((i - 1) % (Len(packages) - Len(OtherPackages)))>>,
                         format_id |-> fmts[i]]]
               ELSE <<>>)
              \o OtherFormats
    /\ products = ProductTable
    /\ \/ principals = <<>>
       \/ \E p \in PrincipalChoices : principals = ("nike" :> p)
    /\ today = 2

NoLog == [operation |-> None, media_buy_id |-> None, outcome |-> None,
          result |-> <<>>]

\* The conversations in which users write to the Slack agent
Conversations == {"alice_dm", "bob_dm"}

\* No message has been handled and no order was created from a conversation
NoChat == [turns |-> [c \in Conversations |->
                        [pc |-> "idle", order |-> None, cem_summary |-> <<>>]],
           created_in |-> [o \in MediaBuyIds |-> None]]

\* DataCloudAuthService.__init__: nothing cached; no caller yet
NoAuth == [access_token |-> <<>>, expires_at |-> <<>>, now |-> 0, issued |-> 0,
           invalidated |-> FALSE, calls |-> <<>>]

NoSummary == [media_buy_id |-> None, all_passed |-> FALSE, response |-> <<>>,
              result |-> <<>>]

InitWorkflowVars ==
    /\ audit_log = <<>>
    /\ next_uuid = 1
    /\ cards = [o \in MediaBuyIds |-> [state |-> "none", actor |-> None, text |-> None]]
    /\ said = {}
    /\ handlers = <<>>
    /\ workflow = [o \in MediaBuyIds |-> "created"]
    /\ pending_cem_summary = <<>>
    /\ last_log = NoLog
    /\ last_summary = NoSummary
    /\ connections = <<>>
    /\ auth = NoAuth
    /\ chat = NoChat

InitValidate ==
    /\ InitDatastore
    /\ validation = NoValidation
    /\ InitWorkflowVars

\* One call validator.validate_order(id) on an OrderValidator whose
\* connection was or was not established
ValidateOrder(id, conn_ok, raising) ==
    /\ validation = NoValidation
    /\ validation' = [media_buy_id |-> id, conn_ok |-> conn_ok, raising |-> raising,
                      result |-> validate_order(id, conn_ok, raising)]
    /\ UNCHANGED <<dbvars, wfvars>>

NextValidate ==
    \E id \in {"mb1", MissingMediaBuyId}, f \in FaultChoices :
        ValidateOrder(id, f.conn_ok, f.raising)

SpecValidate == InitValidate /\ [][NextValidate]_vars

----------------------------------------------------------------------------
(* AuditLogger *)

\* What the datastore does to one AuditLogger call as the handlers and the
\* workflow are followed: the insert commits, the logger has no connection
\* (self.conn is None), or the insert raises
AuditOutcomes == {"ok", "no_connection", "raises"}

\* Every outcome of one call. When conn.commit() raises after the INSERT was
\* executed, the row is gone if the session holds a transaction open and is
\* already in the table if the session commits each statement on its own
\* (the connection is opened without an autocommit setting and log never
\* rolls back)
LogOutcomes == AuditOutcomes \cup {"commit_raises", "commit_raises_autocommit"}

\* The outcomes in which the table has the row after the call
RowWritten == {"ok", "commit_raises_autocommit"}

\* A logger that keeps one row per order: the write replaces the order's rows
log_replacing(rows, uuid, operation, media_buy_id, request_params, response_data, status, outcome) ==
    IF outcome \notin RowWritten
    THEN [audit_log |-> rows, next_uuid |-> uuid, result |-> <<>>]
    ELSE [audit_log |-> Append(SelectSeq(rows, LAMBDA r : r.tool_name # media_buy_id),
                          [id |-> uuid, operation |-> operation,
                           tool_name |-> media_buy_id,
                           request_params |-> request_params,
                           response_data |-> response_data,
                           status |-> status]),
          next_uuid |-> uuid + 1,
          result |-> IF outcome = "ok" THEN <<uuid>> ELSE <<>>]

\* AuditLogger.log on the log `rows` with uuid source `uuid`: the new log,
\* the new uuid source and the returned id (<<>> stands for None)
log(rows, uuid, operation, media_buy_id, request_params, response_data, status, outcome) ==
    IF outcome = "no_connection"
    THEN [audit_log |-> rows, next_uuid |-> uuid, result |-> <<>>]
    ELSE IF outcome \notin RowWritten
    THEN [audit_log |-> rows, next_uuid |-> uuid, result |-> <<>>]
    ELSE [audit_log |-> Append(rows,
                          [id |-> uuid, operation |-> operation,
                           tool_name |-> media_buy_id,
                           request_params |-> request_params,
                           response_data |-> response_data,
                           status |-> status]),
          next_uuid |-> uuid + 1,
          result |-> IF outcome = "ok" THEN <<uuid>> ELSE <<>>]

log_validation(rows, uuid, media_buy_id, validation_result, outcome) ==
    log(rows, uuid, "cem_validation", media_buy_id,
        [media_buy_id |-> media_buy_id],
        [all_passed |-> validation_result.all_passed,
         failed |-> validation_result.failed],
        IF validation_result.all_passed THEN "success" ELSE "failed",
        outcome)

log_approval_requested(rows, uuid, media_buy_id, order_details, cem_channel, outcome) ==
    log(rows, uuid, "cem_approval_requested", media_buy_id,
        [media_buy_id |-> media_buy_id,
         total_budget |-> order_details.total_budget,
         cem_channel |-> cem_channel],
        [status |-> "pending_cem_approval"],
        "pending", outcome)

log_approved(rows, uuid, media_buy_id, approved_by, comments, outcome) ==
    log(rows, uuid, "cem_approved", media_buy_id,
        [media_buy_id |-> media_buy_id, approved_by |-> approved_by],
        [comments |-> comments, new_status |-> "active"],
        "success", outcome)

log_rejected(rows, uuid, media_buy_id, rejected_by, reason, outcome) ==
    log(rows, uuid, "cem_rejected", media_buy_id,
        [media_buy_id |-> media_buy_id, rejected_by |-> rejected_by],
        [reason |-> reason, new_status |-> "rejected"],
        "success", outcome)

log_review_requested(rows, uuid, media_buy_id, requested_by, comments, outcome) ==
    log(rows, uuid, "cem_review_requested", media_buy_id,
        [media_buy_id |-> media_buy_id, requested_by |-> requested_by],
        [comments |-> comments, new_status |-> "pending_changes"],
        "pending", outcome)

DecisionOperations == {"cem_approved", "cem_rejected", "cem_review_requested"}

----------------------------------------------------------------------------
(* The approve / reject / request-changes handlers of slack/bot.py *)

\* The three actions of a card.  An entry of `handlers` follows one action
\* from the click on its button to the end of the handler that decides:
\* handle_cem_approve, or handle_cem_reject / handle_cem_review (which open
\* the modal) and then handle_cem_reject_submit / handle_cem_review_submit
DecisionKinds == {"approve", "reject", "review"}

\* Variant: the UPDATE ahead of the audit write
HandlerStepsUpdateFirst == <<"update", "audit", "render">>

\* The order in which a deciding handler does its work after ack():
\* the audit write, the UPDATE of media_buys, the re-rendering of the card
HandlerSteps == <<"audit", "update", "render">>

StepAfter(step) ==
    IF \E i \in 1..(Len(HandlerSteps) - 1) : HandlerSteps[i] = step
    THEN HandlerSteps[(CHOOSE i \in 1..(Len(HandlerSteps) - 1) : HandlerSteps[i] = step) + 1]
    ELSE "done"

\* Variant: the approve handler stores the card's word, not the status
NewStatusAsShown(kind) ==
    CASE kind = "approve" -> "approved"
      [] kind = "reject" -> "rejected"
      [] kind = "review" -> "pending_changes"

\* SET status = ... of each handler's UPDATE statement
NewStatus(kind) ==
    CASE kind = "approve" -> "active"
      [] kind = "reject" -> "rejected"
      [] kind = "review" -> "pending_changes"

\* The header each handler puts on the re-rendered card
CardState(kind) ==
    CASE kind = "approve" -> "approved"
      [] kind = "reject" -> "rejected"
      [] kind = "review" -> "changes_requested"

\* The audit wrapper each handler calls
LogDecision(kind, media_buy_id, user_name, text, outcome) ==
    CASE kind = "approve" ->
            log_approved(audit_log, next_uuid, media_buy_id, user_name,
                         "Approved via Slack", outcome)
      [] kind = "reject" ->
            log_rejected(audit_log, next_uuid, media_buy_id, user_name, text, outcome)
      [] kind = "review" ->
            log_review_requested(audit_log, next_uuid, media_buy_id, user_name,
                                 text, outcome)

\* The UPDATE without its WHERE clause
UpdateStatusOfEveryOrder(id, st) ==
    [m \in DOMAIN media_buys |-> [media_buys[m] EXCEPT !.status = st]]

\* UPDATE media_buys SET status = st WHERE media_buy_id = id
UpdateStatus(id, st) ==
    [m \in DOMAIN media_buys |->
        IF m = id THEN [media_buys[m] EXCEPT !.status = st] ELSE media_buys[m]]

\* Between its audit write and its UPDATE a handler does not await: no other
\* coroutine of the event loop runs in between
InSync(h) == handlers[h].pc = HandlerSteps[2]

LoopFree == \A g \in DOMAIN handlers : ~InSync(g)

LoopFreeFor(h) == \A g \in DOMAIN handlers : g # h => ~InSync(g)

NewHandler(kind, media_buy_id, user, pc) ==
    [kind |-> kind, media_buy_id |-> media_buy_id, user |-> user, text |-> None,
     pc |-> pc, audit_called |-> FALSE, audit_id |-> <<>>,
     update |-> "not_called", render |-> "not_called"]

\* A handler that has returned keeps no state of its own; only how its last
\* await ended is remembered
Returned(render) ==
    [NewHandler(None, None, None, "done") EXCEPT !.render = render]

\* A click on the card's Approve button; the handler is then at `await ack()`
handle_cem_approve(media_buy_id, user) ==
    /\ cards[media_buy_id].state = "pending"
    /\ Len(handlers) < MaxHandlers
    /\ handlers' = Append(handlers,
                          NewHandler("approve", media_buy_id, user, HandlerSteps[1]))
    /\ UNCHANGED <<dbvars, validation, unitvars, audit_log, next_uuid, cards, said,
                   workflow, pending_cem_summary>>

\* A button handler that stores the decision as soon as it is clicked
OpenModalDeciding(kind, media_buy_id, user, opened) ==
    /\ cards[media_buy_id].state = "pending"
    /\ Len(handlers) < MaxHandlers
    /\ handlers' = Append(handlers,
                          IF opened THEN NewHandler(kind, media_buy_id, user, "modal")
                          ELSE Returned("not_called"))
    /\ media_buys' = UpdateStatus(media_buy_id, NewStatus(kind))
    /\ UNCHANGED <<packages, package_formats, products, principals, today,
                   validation, unitvars, audit_log, next_uuid, cards, said,
                   workflow, pending_cem_summary>>

\* A click on the Reject or the Request Changes button: views_open shows
\* the modal, or fails and a plain-text message is posted
OpenModal(kind, media_buy_id, user, opened) ==
    /\ cards[media_buy_id].state = "pending"
    /\ Len(handlers) < MaxHandlers
    /\ handlers' = Append(handlers,
                          IF opened THEN NewHandler(kind, media_buy_id, user, "modal")
                          ELSE Returned("not_called"))
    /\ said' = IF opened THEN said
               ELSE said \cup {[media_buy_id |-> media_buy_id,
                                text |-> "Could not open form"]}
    /\ UNCHANGED <<dbvars, validation, unitvars, audit_log, next_uuid, cards,
                   workflow, pending_cem_summary>>

handle_cem_reject(media_buy_id, user, opened) ==
    OpenModal("reject", media_buy_id, user, opened)

handle_cem_review(media_buy_id, user, opened) ==
    OpenModal("review", media_buy_id, user, opened)

\* The modal is submitted with its text; the handler is then at `await ack()`
SubmitModal(h, kind, text) ==
    /\ handlers[h].kind = kind
    /\ handlers[h].pc = "modal"
    /\ handlers' = [handlers EXCEPT ![h].pc = HandlerSteps[1], ![h].text = text]
    /\ UNCHANGED <<dbvars, validation, unitvars, audit_log, next_uuid, cards, said,
                   workflow, pending_cem_summary>>

handle_cem_reject_submit(h, reason) == SubmitModal(h, "reject", reason)

handle_cem_review_submit(h, comments) == SubmitModal(h, "review", comments)

\* The modal is closed with Cancel: no handler runs
CancelModal(h) ==
    /\ handlers[h].pc = "modal"
    /\ handlers' = [handlers EXCEPT ![h] = Returned("not_called")]
    /\ UNCHANGED <<dbvars, validation, unitvars, audit_log, next_uuid, cards, said,
                   workflow, pending_cem_summary>>

\* audit = AuditLogger(); audit.log_approved / log_rejected / log_review_requested
AuditStep(h, outcome) ==
    /\ handlers[h].pc = "audit"
    /\ LoopFreeFor(h)
    /\ LET r == LogDecision(handlers[h].kind, handlers[h].media_buy_id,
                            handlers[h].user, handlers[h].text, outcome)
       IN  /\ audit_log' = r.audit_log
           /\ next_uuid' = r.next_uuid
           /\ handlers' = [handlers EXCEPT ![h].pc = StepAfter("audit"),
                                           ![h].audit_called = TRUE,
                                           ![h].audit_id = r.result]
    /\ UNCHANGED <<dbvars, validation, unitvars, cards, said, workflow,
                   pending_cem_summary>>

UpdateOutcomes == {"ok", "raises"}

\* An UPDATE that takes effect although the inner try ends in its except
StatusAfterAttempt(id, kind, outcome) == UpdateStatus(id, NewStatus(kind))

\* Table media_buys after the inner try of a handler of this kind
StatusAfterUpdate(id, kind, outcome) ==
    IF outcome = "ok" THEN UpdateStatus(id, NewStatus(kind)) ELSE media_buys

\* The inner try: connect, UPDATE media_buys SET status, commit; an
\* exception is logged and the handler goes on
UpdateStep(h, outcome) ==
    /\ handlers[h].pc = "update"
    /\ LoopFreeFor(h)
    /\ media_buys' = StatusAfterUpdate(handlers[h].media_buy_id, handlers[h].kind,
                                       outcome)
    /\ handlers' = [handlers EXCEPT ![h].pc = StepAfter("update"),
                                    ![h].update = outcome]
    /\ UNCHANGED <<packages, package_formats, products, principals, today,
                   validation, unitvars, audit_log, next_uuid, cards, said,
                   workflow, pending_cem_summary>>

\* The blocks the handler builds once its UPDATE has been tried
Rendering(kind, user, text, update) ==
    [state |-> CardState(kind), actor |-> user, text |-> text]

RenderOutcomes == {"ok", "raises"}

\* client.chat_update with the decision blocks; when it raises, the approve
\* handler says a plain-text error and the submit handlers only log
RenderStep(h, outcome) ==
    /\ handlers[h].pc = "render"
    /\ LoopFreeFor(h)
    /\ IF outcome = "ok"
       THEN /\ cards' = [cards EXCEPT ![handlers[h].media_buy_id] =
                            Rendering(handlers[h].kind, handlers[h].user,
                                      handlers[h].text, handlers[h].update)]
            /\ said' = said
       ELSE /\ cards' = cards
            /\ said' = IF handlers[h].kind = "approve"
                       THEN said \cup {[media_buy_id |-> handlers[h].media_buy_id,
                                         text |-> "Error processing approval"]}
                       ELSE said
    /\ handlers' = [handlers EXCEPT ![h] = Returned(outcome)]
    /\ UNCHANGED <<dbvars, validation, unitvars, audit_log, next_uuid, workflow,
                   pending_cem_summary>>

----------------------------------------------------------------------------
(* CEMAgent.generate_summary *)

\* What the text-generation backend can answer in a workflow run: a JSON
\* object, text that is not JSON, or an error of the API call
WorkflowResponses ==
    {[kind |-> "json", action |-> "approve", confidence |-> "high",
      risk_level |-> "low", risk_flags |-> <<>>],
     [kind |-> "not_json", action |-> "missing", confidence |-> "missing",
      risk_level |-> "missing", risk_flags |-> <<>>],
     [kind |-> "api_error", action |-> "missing", confidence |-> "missing",
      risk_level |-> "missing", risk_flags |-> <<>>]}

\* dict.get(key, default)
Get(value, default) == IF value = "missing" THEN default ELSE value

\* json.loads raises JSONDecodeError: the text is not JSON, or the response
\* holds no text block and the text stays ""
JSONDecodeError(response) == response.kind \in {"not_json", "no_text_block"}

\* The summary returned from the JSONDecodeError handler
FallbackSummary(order_details, validation_result) ==
    [raised |-> FALSE,
     media_buy_id |-> order_details.media_buy_id,
     risk_flags |-> <<"AI summarization failed - manual review required">>,
     recommendation |-> [action |-> "review", confidence |-> "low",
                         risk_level |-> "medium"]]

\* The summary when the failure leaves through `except Exception: raise`
Raises(order_details) ==
    [raised |-> TRUE,
     media_buy_id |-> order_details.media_buy_id,
     risk_flags |-> <<>>,
     recommendation |-> [action |-> None, confidence |-> None, risk_level |-> None]]

\* A generate_summary without the JSONDecodeError handler
generate_summary_unhandled(order_details, validation_result, response) ==
    IF response.kind = "json"
    THEN [raised |-> FALSE,
          media_buy_id |-> order_details.media_buy_id,
          risk_flags |-> response.risk_flags,
          recommendation |-> [action |-> Get(response.action, "review"),
                              confidence |-> Get(response.confidence, "medium"),
                              risk_level |-> Get(response.risk_level, "medium")]]
    ELSE Raises(order_details)

generate_summary(order_details, validation_result, response) ==
    IF response.kind = "json"
    THEN [raised |-> FALSE,
          media_buy_id |-> order_details.media_buy_id,
          risk_flags |-> response.risk_flags,
          recommendation |-> [action |-> Get(response.action, "review"),
                              confidence |-> Get(response.confidence, "medium"),
                              risk_level |-> Get(response.risk_level, "medium")]]
    ELSE IF JSONDecodeError(response)
    THEN FallbackSummary(order_details, validation_result)
    ELSE Raises(order_details)

----------------------------------------------------------------------------
(* The CEM workflow: validate, audit, summarize, request approval *)

\* One AuditLogger serves both writes of a run: without a connection both
\* return None, with one each insert commits or raises
WorkflowAuditOutcomes ==
    {<<"no_connection", "no_connection">>}
    \cup ({"ok", "raises"} \X {"ok", "raises"})

\* Steps 1 to 4 of the workflow, the same in _trigger_cem_workflow and in
\* handle_campaign_webhook
CemWorkflow(media_buy_id, lookup_ok, outcomes, response, cem_channel) ==
    LET validation_result == validate_order(media_buy_id, lookup_ok, {})
        order_details == get_order_details(media_buy_id, lookup_ok)
        logged == log_validation(audit_log, next_uuid, media_buy_id,
                                 validation_result, outcomes[1])
        cem_summary == generate_summary(order_details[1], validation_result, response)
        requested == log_approval_requested(logged.audit_log, logged.next_uuid,
                                            media_buy_id, order_details[1],
                                            cem_channel, outcomes[2])
    IN  IF order_details = <<>>
        THEN [outcome |-> "no_order_details", audit_log |-> audit_log,
              next_uuid |-> next_uuid, cem_summary |-> <<>>]
        ELSE IF cem_summary.raised
        THEN [outcome |-> "error", audit_log |-> logged.audit_log,
              next_uuid |-> logged.next_uuid, cem_summary |-> <<>>]
        ELSE [outcome |-> "initiated", audit_log |-> requested.audit_log,
              next_uuid |-> requested.next_uuid, cem_summary |-> <<cem_summary>>]

PendingCard == [state |-> "pending", actor |-> None, text |-> None]

\* slack_app.py: the webhook runs the workflow for a created order and,
\* when a channel is configured, goes on to post the card
handle_campaign_webhook(media_buy_id, lookup_ok, outcomes, response, channel_set) ==
    /\ workflow[media_buy_id] = "created"
    /\ LoopFree
    /\ LET run == CemWorkflow(media_buy_id, lookup_ok, outcomes, response,
                              IF channel_set THEN "cem_channel" ELSE "webhook")
       IN  /\ audit_log' = run.audit_log
           /\ next_uuid' = run.next_uuid
           /\ workflow' = [workflow EXCEPT ![media_buy_id] =
                 IF run.outcome = "no_order_details" THEN "http_404"
                 ELSE IF run.outcome = "error" THEN "http_500"
                 ELSE IF channel_set THEN "webhook_posting"
                 ELSE "http_200"]
    /\ UNCHANGED <<dbvars, validation, unitvars, cards, said, handlers,
                   pending_cem_summary>>

\* await client.chat_postMessage(blocks=cem_summary.to_slack_blocks())
WebhookPost(media_buy_id, posted) ==
    /\ workflow[media_buy_id] = "webhook_posting"
    /\ LoopFree
    /\ cards' = IF posted THEN [cards EXCEPT ![media_buy_id] = PendingCard] ELSE cards
    /\ workflow' = [workflow EXCEPT ![media_buy_id] =
                       IF posted THEN "http_200" ELSE "http_500"]
    /\ UNCHANGED <<dbvars, validation, unitvars, audit_log, next_uuid, said, handlers,
                   pending_cem_summary>>

\* slack/agent.py: the hook after a successful create_media_buy tool call
trigger_cem_workflow(media_buy_id, lookup_ok, outcomes, response) ==
    /\ workflow[media_buy_id] = "created"
    /\ LoopFree
    /\ LET run == CemWorkflow(media_buy_id, lookup_ok, outcomes, response, "slack_cem")
       IN  /\ audit_log' = run.audit_log
           /\ next_uuid' = run.next_uuid
           /\ pending_cem_summary' = IF run.outcome = "initiated"
                                     THEN run.cem_summary
                                     ELSE pending_cem_summary
           /\ workflow' = [workflow EXCEPT ![media_buy_id] =
                 IF run.outcome = "initiated" THEN "submitted" ELSE "failed"]
    /\ UNCHANGED <<dbvars, validation, unitvars, cards, said, handlers>>

\* slack/bot.py: after the chat turn, get_pending_cem_summary reads and
\* clears the slot and the card is said
PostPendingCemSummary(posted) ==
    /\ pending_cem_summary # <<>>
    /\ LoopFree
    /\ pending_cem_summary' = <<>>
    /\ cards' = IF posted
                THEN [cards EXCEPT ![pending_cem_summary[1].media_buy_id] = PendingCard]
                ELSE cards
    /\ UNCHANGED <<dbvars, validation, unitvars, audit_log, next_uuid, said, handlers,
                   workflow>>

----------------------------------------------------------------------------
(* The approval workflow as a whole *)

\* Two created orders: mb1 passes every check, mb2 (over budget, inactive
\* product, unknown format) does not
InitApprovalDatastore ==
    /\ media_buys = ("mb1" :> MediaBuyRow(max_budget("standard"), "nike", 2, 3, "pending"))
                    @@ ("mb2" :> OtherOrder)
    /\ packages = <<[id |-> <<"uuid", 1>>, package_id |-> <<"pkg", 1>>,
                      media_buy_id |-> "mb1", product_id |-> "prod_active"]>>
                  \o OtherPackages
    /\ package_formats = <<[package_id |-> <<"pkg", 1>>, format_id |-> "display_300x250"]>>
                         \o OtherFormats
    /\ products = ProductTable
    /\ principals = ("nike" :> [access_level |-> "standard", is_active |-> TRUE])
    /\ today = 2

Init ==
    /\ InitApprovalDatastore
    /\ validation = NoValidation
    /\ InitWorkflowVars

\* The approval flow is followed for order mb1, with a working datastore and
\* backend while the card is produced; mb2 is a bystander
ApprovalOrders == {"mb1"}

Next ==
    \/ \E o \in ApprovalOrders, response \in {r \in WorkflowResponses : r.kind = "json"} :
            handle_campaign_webhook(o, TRUE, <<"ok", "ok">>, response, TRUE)
    \/ \E o \in ApprovalOrders, posted \in BOOLEAN : WebhookPost(o, posted)
    \/ \E o \in ApprovalOrders, response \in {r \in WorkflowResponses : r.kind = "json"} :
            trigger_cem_workflow(o, TRUE, <<"ok", "ok">>, response)
    \/ \E posted \in BOOLEAN : PostPendingCemSummary(posted)
    \/ \E o \in ApprovalOrders, a \in Actors : handle_cem_approve(o, a)
    \/ \E o \in ApprovalOrders, a \in Actors, opened \in BOOLEAN :
            handle_cem_reject(o, a, opened)
    \/ \E o \in ApprovalOrders, a \in Actors, opened \in BOOLEAN :
            handle_cem_review(o, a, opened)
    \/ \E h \in DOMAIN handlers, t \in Texts : handle_cem_reject_submit(h, t)
    \/ \E h \in DOMAIN handlers, t \in Texts : handle_cem_review_submit(h, t)
    \/ \E h \in DOMAIN handlers : CancelModal(h)
    \/ \E h \in DOMAIN handlers, outcome \in AuditOutcomes : AuditStep(h, outcome)
    \/ \E h \in DOMAIN handlers, outcome \in UpdateOutcomes : UpdateStep(h, outcome)
    \/ \E h \in DOMAIN handlers, outcome \in RenderOutcomes : RenderStep(h, outcome)

Spec == Init /\ [][Next]_vars

----------------------------------------------------------------------------
(* Vocabulary of the claims about the approval workflow *)

Status(o) == media_buys[o].status

DecidedStatuses == {"active", "rejected", "pending_changes"}

\* The audit rows of operation op written for order o
EntriesOf(rows, o, op) ==
    {i \in DOMAIN rows : rows[i].operation = op /\ rows[i].tool_name = o}

\* Handler h takes the named step in the current transition
Audits(h) ==
    /\ h \in DOMAIN handlers
    /\ ~handlers[h].audit_called
    /\ handlers'[h].audit_called

Updates(h) ==
    /\ h \in DOMAIN handlers
    /\ handlers[h].update = "not_called"
    /\ handlers'[h].update # "not_called"

Renders(h) ==
    /\ h \in DOMAIN handlers
    /\ handlers[h].pc = "render"
    /\ handlers'[h].pc = "done"

\* The row handler h's audit write has just appended
Appended(h) == audit_log'[Len(audit_log')]

AppendsOneRow(h) ==
    /\ Len(audit_log') = Len(audit_log) + 1
    /\ SubSeq(audit_log', 1, Len(audit_log)) = audit_log
    /\ handlers'[h].audit_id = <<Appended(h).id>>
    /\ \A i \in DOMAIN audit_log : audit_log[i].id # Appended(h).id
    /\ Appended(h).tool_name = handlers[h].media_buy_id

----------------------------------------------------------------------------
(* C1 *)

StatusEdges ==
    {<<"pending", "pending_cem_approval">>,
     <<"pending_cem_approval", "active">>,
     <<"pending_cem_approval", "rejected">>,
     <<"pending_cem_approval", "pending_changes">>}

\* C1: an order's stored status changes only along pending ->
\* pending_cem_approval -> {active, rejected, pending_changes}: an order whose
\* approval card has been posted has left status pending, and every change of
\* a stored status follows one of these edges.
C1_StatusFollowsEdges ==
    /\ [](\A o \in MediaBuyIds : cards[o].state # "none" => Status(o) # "pending")
    /\ [][\A o \in MediaBuyIds :
            Status(o)' # Status(o) => <<Status(o), Status(o)'>> \in StatusEdges]_vars

----------------------------------------------------------------------------
(* C2 *)

----------------------------------------------------------------------------
(* C3 *)

\* C3: when a reject-submit (request-changes-submit) handler whose audit
\* write and status update both succeeded finishes, the one row its audit
\* write appended is a cem_rejected (cem_review_requested) row for the order
\* that carries the submitted reason (comments) and names the actor, and the
\* order's stored status is rejected (pending_changes).
C3_SubmitPostcondition ==
    [][\A h \in DOMAIN handlers :
          (/\ handlers[h].kind \in {"reject", "review"}
           /\ Renders(h)
           /\ handlers[h].audit_id # <<>>
           /\ handlers[h].update = "ok")
          => LET o == handlers[h].media_buy_id
                 op == IF handlers[h].kind = "reject" THEN "cem_rejected"
                       ELSE "cem_review_requested"
                 mine == {i \in EntriesOf(audit_log', o, op) :
                             audit_log'[i].id = handlers[h].audit_id[1]}
             IN  /\ Cardinality(mine) = 1
                 /\ \A i \in mine :
                       IF handlers[h].kind = "reject"
                       THEN /\ audit_log'[i].request_params.rejected_by = handlers[h].user
                            /\ audit_log'[i].response_data.reason = handlers[h].text
                       ELSE /\ audit_log'[i].request_params.requested_by = handlers[h].user
                            /\ audit_log'[i].response_data.comments = handlers[h].text
                 /\ media_buys'[o].status = (IF handlers[h].kind = "reject" THEN "rejected"
                                             ELSE "pending_changes")
      ]_vars

----------------------------------------------------------------------------
(* C4 *)

\* The decision rows of order o that were not written by the action whose
\* status the order now has
OtherDecisionRows(rows, o, status) ==
    {i \in DOMAIN rows :
        /\ rows[i].tool_name = o
        /\ rows[i].operation \in DecisionOperations
        /\ rows[i].response_data.new_status # status}

\* C4: the three actions of a card are mutually exclusive: once one action
\* has set the order's status to active, rejected or pending_changes, no step
\* changes that status or appends a decision row of another kind for the order.
C4_ActionsMutuallyExclusive ==
    [][\A o \in MediaBuyIds : Status(o) \in DecidedStatuses =>
          /\ Status(o)' = Status(o)
          /\ OtherDecisionRows(audit_log', o, Status(o))
                = OtherDecisionRows(audit_log, o, Status(o))
      ]_vars

----------------------------------------------------------------------------
(* C5 *)

\* C5: Approve is idempotent: however often Approve is clicked on an order,
\* at most one cem_approved row exists for the order, and an Approve that
\* finds the order already active leaves the stored status as it was.
C5_ApproveIdempotent ==
    /\ [](\A o \in MediaBuyIds :
             Cardinality(EntriesOf(audit_log, o, "cem_approved")) <= 1)
    /\ [][\A h \in DOMAIN handlers :
            (/\ handlers[h].kind = "approve"
             /\ Updates(h)
             /\ Status(handlers[h].media_buy_id) = "active")
            => media_buys'[handlers[h].media_buy_id].status = "active"
       ]_vars

----------------------------------------------------------------------------
(* C6 *)

----------------------------------------------------------------------------
(* C7 *)

\* C7: when the status update of an approve, reject-submit or
\* request-changes-submit handler fails, the handler does not re-render the
\* card as approved / rejected / changes-requested: it leaves the card as it
\* was and a plain-text error message about the order has been said.
C7_UpdateFailureShown ==
    [][\A h \in DOMAIN handlers :
          (Renders(h) /\ handlers[h].update = "raises")
          => /\ cards' = cards
             /\ \E m \in said' : m.media_buy_id = handlers[h].media_buy_id
      ]_vars

----------------------------------------------------------------------------
(* Vocabulary of the claims about validate_order *)

Validated == validation.media_buy_id # None

\* Check i of the last validate_order call met a lookup that raised
Raised(i) == LookupRaises(validation.conn_ok, validation.raising, CheckNames[i])

\* What each check finds for order id when its own lookup works
Undisturbed(id) ==
    <<validate_media_buy_exists(id, TRUE, {}),
      validate_products_exist(id, TRUE, {}),
      validate_formats_exist(id, TRUE, {}),
      validate_principal_authorized(id, TRUE, {}),
      validate_budget_limits(id, TRUE, {}),
      validate_flight_dates(id, TRUE, {})>>

----------------------------------------------------------------------------
(* C8 *)

\* C8: validate_order, for every order ID and datastore state, with or without
\* a connection and with a lookup that raises in any one check, returns six
\* check results in the order media_buy_exists, products_exist, formats_exist,
\* principal_authorized, budget_limits, flight_dates; a check whose lookup
\* raised reports passed = false, and every other check reports what it
\* reports when nothing raises.
C8_SixChecksAlways ==
    Validated =>
        LET checks == validation.result.checks
        IN  /\ Len(checks) = Len(CheckNames)
            /\ \A i \in DOMAIN CheckNames : checks[i].check_name = CheckNames[i]
            /\ \A i \in DOMAIN CheckNames : Raised(i) => ~checks[i].passed
            /\ \A i \in DOMAIN CheckNames :
                  ~Raised(i) => checks[i] = Undisturbed(validation.media_buy_id)[i]

C8_Witness ==
    /\ validation.media_buy_id = "mb1"
    /\ validation.raising = {"budget_limits"}
    /\ validation.result.failed = <<"budget_limits">>
    /\ validation.result.checks[6].message = "Flight dates valid"

----------------------------------------------------------------------------
(* C9 *)

\* C9: in every result of validate_order all_passed is true exactly when each
\* of the six checks reports passed = true, and the same checks with any one
\* passed check turned to failed give all_passed = false.
C9_AllPassedIsConjunction ==
    Validated =>
        LET checks == validation.result.checks
        IN  /\ validation.result.all_passed
                 <=> (\A i \in DOMAIN CheckNames : checks[i].passed)
            /\ \A i \in DOMAIN checks :
                  checks[i].passed =>
                     ~all_passed([checks EXCEPT ![i].passed = FALSE])

C9_Witness ==
    /\ Validated
    /\ validation.result.all_passed
    /\ validation.result.passed_count = Len(CheckNames)

----------------------------------------------------------------------------
(* C10 *)

\* C10 as stated: for an order ID without an order record, media_buy_exists
\* and each of the five downstream checks report passed = false.
C10_MissingOrderFailsAll ==
    validation.media_buy_id = MissingMediaBuyId =>
        \A i \in DOMAIN CheckNames : ~validation.result.checks[i].passed

\* C10 (amended): for an order ID without an order record, media_buy_exists,
\* products_exist, principal_authorized, budget_limits and flight_dates report
\* passed = false, and formats_exist reports passed = true (there are no
\* formats to validate) unless its own lookup raised.
C10_MissingOrderFailsAllButFormats ==
    validation.media_buy_id = MissingMediaBuyId =>
        LET checks == validation.result.checks
        IN  /\ \A i \in DOMAIN CheckNames :
                  CheckNames[i] # "formats_exist" => ~checks[i].passed
            /\ \A i \in DOMAIN CheckNames :
                  CheckNames[i] = "formats_exist" => (checks[i].passed <=> ~Raised(i))

C10_Witness ==
    /\ validation.media_buy_id = MissingMediaBuyId
    /\ validation.conn_ok
    /\ validation.raising = {}
    /\ validation.result.failed = <<"media_buy_exists", "products_exist",
                                    "principal_authorized", "budget_limits",
                                    "flight_dates">>
    /\ validation.result.checks[3].message = "No package formats to validate (optional)"

----------------------------------------------------------------------------
(* C11 *)

\* The packages of order id, and the product each one references
PackagesOf(id) == SelectSeq(packages, LAMBDA p : p.media_buy_id = id)

ProductIdsOf(id) == [i \in 1..Len(PackagesOf(id)) |-> PackagesOf(id)[i].product_id]

\* The product exists in the master table and is active
Sellable(product_id) ==
    product_id \in DOMAIN products /\ products[product_id].is_active

\* C11: whenever its lookup returns, products_exist passes exactly when the
\* order has at least one package and every package's product exists and is
\* active; with no package it fails with the no-packages-found message; when
\* it passes its valid list is every package's product ID; when it fails with
\* packages present its invalid list is exactly the product IDs of the
\* packages whose product is missing or inactive.
C11_ProductsExist ==
    (Validated /\ ~Raised(2)) =>
        LET check == validation.result.checks[2]
            ids == ProductIdsOf(validation.media_buy_id)
        IN  /\ check.check_name = "products_exist"
            /\ check.passed <=> (ids # <<>> /\ \A i \in DOMAIN ids : Sellable(ids[i]))
            /\ ids = <<>> => check.message = "No packages found for this media buy"
            /\ check.passed => check.valid = ids
            /\ (~check.passed /\ ids # <<>>) =>
                  check.invalid = SelectSeq(ids, LAMBDA x : ~Sellable(x))

C11_Witness ==
    /\ validation.media_buy_id = "mb1"
    /\ ~Raised(2)
    /\ validation.result.checks[2].invalid = <<"prod_inactive">>
    /\ validation.result.checks[2].valid = <<"prod_active">>

----------------------------------------------------------------------------
(* C13 *)

\* The ceiling of an access level, in cents
CeilingCents(access_level) ==
    CASE access_level = "enterprise" -> 1000000 * 100
      [] access_level = "preferred" -> 500000 * 100
      [] OTHER -> 100000 * 100

\* C13: for an existing order with a linked principal, whenever its lookup
\* returns, budget_limits passes exactly when the order's total budget is at
\* most the ceiling of the principal's access level (1,000,000 enterprise,
\* 500,000 preferred, 100,000 otherwise): a budget equal to the ceiling
\* passes and a budget one cent above it fails.
C13_BudgetLimits ==
    (Validated /\ ~Raised(5) /\ PrincipalJoined(validation.media_buy_id)) =>
        LET check == validation.result.checks[5]
            order == media_buys[validation.media_buy_id]
            ceiling == CeilingCents(principals[order.principal_id].access_level)
        IN  /\ check.check_name = "budget_limits"
            /\ check.passed <=> order.total_budget <= ceiling
            /\ order.total_budget = ceiling => check.passed
            /\ order.total_budget = ceiling + 1 => ~check.passed

C13_Witness ==
    /\ validation.media_buy_id = "mb1"
    /\ ~Raised(5)
    /\ PrincipalJoined("mb1")
    /\ principals["nike"].access_level = "enterprise"
    /\ media_buys["mb1"].total_budget = CeilingCents("enterprise")
    /\ validation.result.checks[5].passed

----------------------------------------------------------------------------
(* C14 *)

----------------------------------------------------------------------------
(* C12 *)

\* package_formats.package_id carries, for rows copied by the migration, the
\* packages.id it references, and for rows written by insert_package the
\* package's own package_id
FormatKeys == {"uuid", "pkg"}

\* Order mb1 with any packages, and formats attached to them under either key
InitFormats ==
    /\ media_buys = ("mb1" :> MediaBuyRow(max_budget("standard"), "nike", 2, 3, "pending"))
                    @@ ("mb2" :> OtherOrder)
    /\ \E prods \in SeqsUpTo(ProductIds, MaxPackages) :
          packages = [i \in 1..Len(prods) |->
                         [id |-> <<"uuid", i>>, package_id |-> <<"pkg", i>>,
                          media_buy_id |-> "mb1", product_id |-> prods[i]]]
                     \o OtherPackages
    /\ \E fmts \in SeqsUpTo(FormatChoices, MaxFormats), key \in FormatKeys :
          package_formats =
              (IF Len(packages) > Len(OtherPackages)
               THEN [i \in 1..Len(fmts) |->
                        [package_id |->
                            <<key, 1 + ((i - 1) % (Len(packages) - Len(OtherPackages)))>>,
                         format_id |-> fmts[i]]]
               ELSE <<>>)
              \o OtherFormats
    /\ products = ProductTable
    /\ principals = ("nike" :> [access_level |-> "standard", is_active |-> TRUE])
    /\ today = 2
    /\ validation = NoValidation
    /\ InitWorkflowVars

NextFormats == \E f \in FaultChoices : ValidateOrder("mb1", f.conn_ok, f.raising)

SpecFormats == InitFormats /\ [][NextFormats]_vars

\* The format IDs attached to the packages of order id
AttachedFormats(id) ==
    LET rows == SelectSeq(package_formats,
                   LAMBDA pf : \E i \in DOMAIN packages :
                                  /\ packages[i].media_buy_id = id
                                  /\ pf.package_id \in {packages[i].id,
                                                        packages[i].package_id})
    IN  [i \in 1..Len(rows) |-> rows[i].format_id]

\* C12: whenever its lookup returns, formats_exist fails exactly when a format
\* ID attached to the order's packages is outside the allow-list, the IDs it
\* names on failure are exactly the attached IDs outside the allow-list, and
\* an order without attached formats passes.
C12_FormatsExist ==
    (Validated /\ ~Raised(3)) =>
        LET check == validation.result.checks[3]
            attached == AttachedFormats(validation.media_buy_id)
            unknown == SelectSeq(attached, LAMBDA f : f \notin valid_formats)
        IN  /\ check.check_name = "formats_exist"
            /\ ~check.passed <=> unknown # <<>>
            /\ ~check.passed => check.invalid = unknown
            /\ attached = <<>> => check.passed

----------------------------------------------------------------------------
(* The AuditLogger called on its own, with every outcome of its write *)

MaxAuditRows == 2

LogOperations == {"log", "cem_validation", "cem_approval_requested"}
                 \cup DecisionOperations

\* One call of log or of one of its five wrappers, by the operation it records
CallLog(operation, media_buy_id, user_name, text, outcome) ==
    CASE operation = "log" ->
            log(audit_log, next_uuid, "cem_note", media_buy_id,
                [media_buy_id |-> media_buy_id], [note |-> text], "success", outcome)
      [] operation = "cem_validation" ->
            log_validation(audit_log, next_uuid, media_buy_id,
                           validate_order(media_buy_id, TRUE, {}), outcome)
      [] operation = "cem_approval_requested" ->
            log_approval_requested(audit_log, next_uuid, media_buy_id,
                                   get_order_details(media_buy_id, TRUE)[1],
                                   "slack_cem", outcome)
      [] operation = "cem_approved" ->
            log_approved(audit_log, next_uuid, media_buy_id, user_name, text, outcome)
      [] operation = "cem_rejected" ->
            log_rejected(audit_log, next_uuid, media_buy_id, user_name, text, outcome)
      [] operation = "cem_review_requested" ->
            log_review_requested(audit_log, next_uuid, media_buy_id, user_name,
                                 text, outcome)

LogCall(operation, media_buy_id, user_name, text, outcome) ==
    /\ Len(audit_log) < MaxAuditRows
    /\ LET call == CallLog(operation, media_buy_id, user_name, text, outcome)
       IN  /\ audit_log' = call.audit_log
           /\ next_uuid' = call.next_uuid
           /\ last_log' = [operation |-> operation, media_buy_id |-> media_buy_id,
                           outcome |-> outcome, result |-> call.result]
    /\ UNCHANGED <<dbvars, validation, chat, last_summary, connections, auth, cards, said,
                   handlers, workflow, pending_cem_summary>>

NextAudit ==
    \E operation \in LogOperations, media_buy_id \in MediaBuyIds,
       user_name \in Actors, text \in Texts, outcome \in LogOutcomes :
        LogCall(operation, media_buy_id, user_name, text, outcome)

SpecAudit == Init /\ [][NextAudit]_vars

\* C15: a call of log whose write fails (no connection, the insert raises or
\* the commit raises) returns None and adds no entry to the audit log
C15_LogFailsSoft ==
    [][(last_log'.outcome \in LogOutcomes \ {"ok"})
          => (last_log'.result = <<>> /\ audit_log' = audit_log)]_vars

----------------------------------------------------------------------------
(* C16 *)

IsPrefix(s, t) == Len(s) <= Len(t) /\ SubSeq(t, 1, Len(s)) = s

AuditIds(rows) == {rows[i].id : i \in DOMAIN rows}

\* C16: the audit log is append-only. Every step of the workflow and of the
\* handlers keeps the rows already written, unchanged and in place; the rows
\* it adds carry ids no other row has; and a handler whose log call returns
\* an id has added exactly one row, the row with that id.
C16_AuditAppendOnly ==
    [][/\ IsPrefix(audit_log, audit_log')
       /\ Cardinality(AuditIds(audit_log')) = Len(audit_log')
       /\ \A h \in DOMAIN handlers :
              (Audits(h) /\ handlers'[h].audit_id # <<>>)
                  => /\ Len(audit_log') = Len(audit_log) + 1
                     /\ handlers'[h].audit_id = <<audit_log'[Len(audit_log')].id>>]_vars

\* A decision row written after the two rows of the workflow run, its id
\* returned to the handler
C16_Witness ==
    /\ Len(audit_log) = 3
    /\ audit_log[1].operation = "cem_validation"
    /\ audit_log[2].operation = "cem_approval_requested"
    /\ audit_log[3].operation \in DecisionOperations
    /\ \E h \in DOMAIN handlers : handlers[h].audit_id = <<audit_log[3].id>>

----------------------------------------------------------------------------
(* The CEM workflow with every outcome of its lookups, audit writes and *)
(* backend call *)

\* The orders of the approval flow, with or without the row of their principal
InitWorkflowRuns ==
    /\ media_buys = ("mb1" :> MediaBuyRow(max_budget("standard"), "nike", 2, 3, "pending"))
                    @@ ("mb2" :> OtherOrder)
    /\ packages = <<[id |-> <<"uuid", 1>>, package_id |-> <<"pkg", 1>>,
                      media_buy_id |-> "mb1", product_id |-> "prod_active"]>>
                  \o OtherPackages
    /\ package_formats = <<[package_id |-> <<"pkg", 1>>, format_id |-> "display_300x250"]>>
                         \o OtherFormats
    /\ products = ProductTable
    /\ principals \in {("nike" :> [access_level |-> "standard", is_active |-> TRUE]),
                       ("adidas" :> [access_level |-> "standard", is_active |-> TRUE])}
    /\ today = 2
    /\ validation = NoValidation
    /\ InitWorkflowVars

NextWorkflowRuns ==
    \/ \E o \in MediaBuyIds, lookup_ok \in BOOLEAN, outcomes \in WorkflowAuditOutcomes,
          response \in WorkflowResponses, channel_set \in BOOLEAN :
            handle_campaign_webhook(o, lookup_ok, outcomes, response, channel_set)
    \/ \E o \in MediaBuyIds, posted \in BOOLEAN : WebhookPost(o, posted)
    \/ \E o \in MediaBuyIds, lookup_ok \in BOOLEAN, outcomes \in WorkflowAuditOutcomes,
          response \in WorkflowResponses :
            trigger_cem_workflow(o, lookup_ok, outcomes, response)
    \/ \E posted \in BOOLEAN : PostPendingCemSummary(posted)

SpecWorkflowRuns == InitWorkflowRuns /\ [][NextWorkflowRuns]_vars

\* The workflow runs for order o and every audit write it makes is accepted
RunsAccepted(o) ==
    \E lookup_ok \in BOOLEAN, response \in WorkflowResponses :
        \/ \E channel_set \in BOOLEAN :
              handle_campaign_webhook(o, lookup_ok, <<"ok", "ok">>, response, channel_set)
        \/ trigger_cem_workflow(o, lookup_ok, <<"ok", "ok">>, response)

\* C17: a workflow run that has validated order o, with an audit datastore
\* that accepts writes, has written a cem_validation entry for o by the time
\* it finishes
C17_ValidationRecorded ==
    [][\A o \in MediaBuyIds :
          RunsAccepted(o) => EntriesOf(audit_log', o, "cem_validation") # {}]_vars

----------------------------------------------------------------------------
(* generate_summary called on its own, with every kind of backend response *)

\* What messages.create gives back: a JSON object in the text (bare or in a
\* code fence), text that is not JSON, no text block at all, JSON that is
\* not an object, an object whose recommendation is null, or an exception
SummaryResponses ==
    [kind : {"json"},
     action : {"approve", "review", "reject", "missing"},
     confidence : {"high", "medium", "low", "missing"},
     risk_level : {"low", "missing"},
     risk_flags : {<<>>, <<"High budget">>}]
    \cup [kind : {"not_json", "no_text_block", "json_array", "null_recommendation",
                  "api_error"},
          action : {"missing"}, confidence : {"missing"}, risk_level : {"missing"},
          risk_flags : {<<>>}]

GenerateSummary(media_buy_id, response) ==
    /\ get_order_details(media_buy_id, TRUE) # <<>>
    /\ LET order_details == get_order_details(media_buy_id, TRUE)[1]
           validation_result == validate_order(media_buy_id, TRUE, {})
       IN  last_summary' =
               [media_buy_id |-> media_buy_id,
                all_passed |-> validation_result.all_passed,
                response |-> <<response>>,
                result |-> <<generate_summary(order_details, validation_result,
                                              response)>>]
    /\ UNCHANGED <<dbvars, validation, chat, last_log, connections, auth, audit_log, next_uuid,
                   cards, said, handlers, workflow, pending_cem_summary>>

NextSummary ==
    \E media_buy_id \in MediaBuyIds, response \in SummaryResponses :
        GenerateSummary(media_buy_id, response)

SpecSummary == Init /\ [][NextSummary]_vars

Summarized == last_summary # NoSummary

\* C18: when the response text is not parseable JSON, generate_summary
\* returns without raising, and what it returns is the fallback: action
\* review, confidence low, risk level medium, and the one risk flag saying
\* that AI summarization failed and manual review is required
C18_UnparsableGivesFallback ==
    (Summarized /\ JSONDecodeError(last_summary.response[1]))
        => LET result == last_summary.result[1]
           IN  /\ ~result.raised
               /\ result.media_buy_id = last_summary.media_buy_id
               /\ result.recommendation =
                      [action |-> "review", confidence |-> "low",
                       risk_level |-> "medium"]
               /\ result.risk_flags =
                      <<"AI summarization failed - manual review required">>

C18_Witness ==
    /\ Summarized
    /\ last_summary.response[1].kind = "not_json"
    /\ ~last_summary.result[1].raised
    /\ last_summary.result[1].recommendation.confidence = "low"

----------------------------------------------------------------------------
(* C19 *)

\* The backend call fails, or its response has the wrong shape
OracleFails(response) == response.kind # "json"

\* C19: every failure of the backend inside generate_summary ends in the
\* fallback summary (review, low, medium), never in an exception
C19_FailuresGiveFallback ==
    (Summarized /\ OracleFails(last_summary.response[1]))
        => /\ ~last_summary.result[1].raised
           /\ last_summary.result[1].recommendation =
                  [action |-> "review", confidence |-> "low", risk_level |-> "medium"]

----------------------------------------------------------------------------
(* C20 *)

\* SYSTEM_PROMPT, RECOMMENDATION CRITERIA: the action the policy prescribes
PolicyAction(all_checks_passed, risk_flags) ==
    IF ~all_checks_passed THEN "reject"
    ELSE IF risk_flags = <<>> THEN "approve"
    ELSE "review"

\* C20: every summary generate_summary returns carries the action the
\* recommendation policy prescribes for its validation result and its own
\* risk flags: reject when a check failed, approve when all passed and there
\* is no risk flag, review when all passed and there are risk flags
C20_RecommendationPolicy ==
    (Summarized /\ ~last_summary.result[1].raised)
        => last_summary.result[1].recommendation.action =
              PolicyAction(last_summary.all_passed, last_summary.result[1].risk_flags)

----------------------------------------------------------------------------
(* The datastore connection of each logical operation *)

MaxOperations == 3

\* A validation run (OrderValidator() and validate_order), an audit write
\* (AuditLogger() and log) and the status update of a decision handler
ConnectionOperations == {"validation", "audit_write", "status_update"}

\* How the operation goes: snowflake.connector.connect fails, the statements
\* run, or a statement raises after the connection was made
ConnectionOutcomes == {"connect_fails", "ok", "raises"}

\* The statements each operation runs on the way out, whatever the outcome:
\* every path closes cursors only, none calls close() on the connection
ClosesConnection(operation, outcome) == FALSE

\* The connection the operation leaves behind. OrderValidator and AuditLogger
\* connect in __init__ and keep None when that fails; the handlers call
\* SnowflakeWriteService._get_connection inside their inner try
ConnectionAfter(operation, outcome) ==
    IF outcome = "connect_fails" THEN "none"
    ELSE IF ClosesConnection(operation, outcome) THEN "closed"
    ELSE "open"

RunOperation(operation, outcome) ==
    /\ Len(connections) < MaxOperations
    /\ connections' = Append(connections,
                             [operation |-> operation, outcome |-> outcome,
                              connection |-> ConnectionAfter(operation, outcome)])
    /\ UNCHANGED <<dbvars, validation, chat, last_log, last_summary, auth, audit_log,
                   next_uuid, cards, said, handlers, workflow, pending_cem_summary>>

NextConnections ==
    \E operation \in ConnectionOperations, outcome \in ConnectionOutcomes :
        RunOperation(operation, outcome)

SpecConnections == Init /\ [][NextConnections]_vars

\* C21: after a logical operation has finished, on whatever path, no
\* connection it opened remains open
C21_ConnectionsReleased ==
    \A i \in DOMAIN connections : connections[i].connection # "open"

----------------------------------------------------------------------------
(* Approval flows of two orders side by side *)

\* The cards of both orders are posted and their workflow runs are over
InitTwoOrders ==
    /\ InitApprovalDatastore
    /\ validation = NoValidation
    /\ audit_log = <<>>
    /\ next_uuid = 1
    /\ cards = [o \in MediaBuyIds |-> PendingCard]
    /\ said = {}
    /\ handlers = <<>>
    /\ workflow = [o \in MediaBuyIds |-> "http_200"]
    /\ pending_cem_summary = <<>>
    /\ last_log = NoLog
    /\ last_summary = NoSummary
    /\ connections = <<>>
    /\ auth = NoAuth
    /\ chat = NoChat

\* One reviewer acts on both cards
Reviewer == "alice"

NextTwoOrders ==
    \/ \E o \in MediaBuyIds : handle_cem_approve(o, Reviewer)
    \/ \E o \in MediaBuyIds, opened \in BOOLEAN : handle_cem_reject(o, Reviewer, opened)
    \/ \E o \in MediaBuyIds, opened \in BOOLEAN : handle_cem_review(o, Reviewer, opened)
    \/ \E h \in DOMAIN handlers, t \in Texts : handle_cem_reject_submit(h, t)
    \/ \E h \in DOMAIN handlers, t \in Texts : handle_cem_review_submit(h, t)
    \/ \E h \in DOMAIN handlers : CancelModal(h)
    \/ \E h \in DOMAIN handlers, outcome \in AuditOutcomes : AuditStep(h, outcome)
    \/ \E h \in DOMAIN handlers, outcome \in UpdateOutcomes : UpdateStep(h, outcome)
    \/ \E h \in DOMAIN handlers, outcome \in RenderOutcomes : RenderStep(h, outcome)

SpecTwoOrders == InitTwoOrders /\ [][NextTwoOrders]_vars

\* Handler h takes a step in the current transition
Steps(h) == h \in DOMAIN handlers /\ handlers'[h] # handlers[h]

\* The audit rows of order o, in the order they were written
RowsOf(rows, o) == SelectSeq(rows, LAMBDA r : r.tool_name = o)

\* C22: approval flows of different orders are independent. A step of a
\* handler that carries order A's id leaves the stored status and the audit
\* entries of every other order B as they were, in every interleaving of
\* the handlers of A and B.
C22_OrdersIndependent ==
    [][\A h \in DOMAIN handlers :
          Steps(h) =>
              \A b \in MediaBuyIds \ {handlers[h].media_buy_id} :
                  /\ media_buys'[b] = media_buys[b]
                  /\ RowsOf(audit_log', b) = RowsOf(audit_log, b)]_vars

\* Both orders decided, each by its own handler, while the other's was running
C22_Witness ==
    /\ Status("mb1") = "active"
    /\ Status("mb2") = "rejected"
    /\ EntriesOf(audit_log, "mb1", "cem_approved") # {}
    /\ EntriesOf(audit_log, "mb2", "cem_rejected") # {}
    /\ EntriesOf(audit_log, "mb1", "cem_rejected") = {}
    /\ EntriesOf(audit_log, "mb2", "cem_approved") = {}
    /\ \E h \in DOMAIN handlers : handlers[h].media_buy_id = "mb1" /\ handlers[h].pc = "render"
    /\ \E h \in DOMAIN handlers : handlers[h].media_buy_id = "mb2" /\ handlers[h].pc = "render"

----------------------------------------------------------------------------
(* DataCloudAuthService: the cached access token *)
(* Time is in seconds; tokens are numbered in the order the token service *)
(* issues them.                                                           *)

MaxCalls == 3

MaxTime == 600

ClockStep == 100

\* expires_in of the token response: shorter and longer than the buffer
ExpiresInChoices == {200, 500}

\* self._refresh_buffer
refresh_buffer == 300

is_token_valid(a) ==
    IF a.access_token = <<>> \/ a.expires_at = <<>>
    THEN FALSE
    ELSE a.now < a.expires_at[1] - refresh_buffer

\* A caller enters get_access_token: it returns the cached token at once, or
\* goes to `await self._fetch_new_token()`
get_access_token ==
    /\ Len(auth.calls) < MaxCalls
    /\ auth' = [auth EXCEPT
           !.invalidated = FALSE,
           !.calls = Append(@,
               IF is_token_valid(auth)
               THEN [pc |-> "returned", fetched |-> FALSE, token |-> auth.access_token]
               ELSE [pc |-> "fetching", fetched |-> TRUE, token |-> <<>>])]
    /\ UNCHANGED <<dbvars, validation, chat, last_log, last_summary, connections, audit_log,
                   next_uuid, cards, said, handlers, workflow, pending_cem_summary>>

\* The token service answers caller c: the token and its expiry are stored
\* and the token is returned
FetchReturns(c, expires_in) ==
    /\ auth.calls[c].pc = "fetching"
    /\ auth' = [auth EXCEPT
           !.access_token = <<auth.issued + 1>>,
           !.expires_at = <<auth.now + expires_in>>,
           !.issued = @ + 1,
           !.calls[c] = [pc |-> "returned", fetched |-> TRUE,
                         token |-> <<auth.issued + 1>>]]
    /\ UNCHANGED <<dbvars, validation, chat, last_log, last_summary, connections, audit_log,
                   next_uuid, cards, said, handlers, workflow, pending_cem_summary>>

\* The request of caller c fails: get_access_token raises, the cache is as
\* it was
FetchRaises(c) ==
    /\ auth.calls[c].pc = "fetching"
    /\ auth' = [auth EXCEPT !.calls[c].pc = "raised"]
    /\ UNCHANGED <<dbvars, validation, chat, last_log, last_summary, connections, audit_log,
                   next_uuid, cards, said, handlers, workflow, pending_cem_summary>>

\* invalidate_token; `invalidated` remembers it until the next caller enters
invalidate_token ==
    /\ auth.access_token # <<>>
    /\ auth' = [auth EXCEPT !.access_token = <<>>, !.expires_at = <<>>,
                            !.invalidated = TRUE]
    /\ UNCHANGED <<dbvars, validation, chat, last_log, last_summary, connections, audit_log,
                   next_uuid, cards, said, handlers, workflow, pending_cem_summary>>

\* time.time() moves on
Tick ==
    /\ auth.now + ClockStep <= MaxTime
    /\ auth' = [auth EXCEPT !.now = @ + ClockStep]
    /\ UNCHANGED <<dbvars, validation, chat, last_log, last_summary, connections, audit_log,
                   next_uuid, cards, said, handlers, workflow, pending_cem_summary>>

NextAuth ==
    \/ get_access_token
    \/ \E c \in DOMAIN auth.calls, expires_in \in ExpiresInChoices :
            FetchReturns(c, expires_in)
    \/ \E c \in DOMAIN auth.calls : FetchRaises(c)
    \/ invalidate_token
    \/ Tick

SpecAuth == Init /\ [][NextAuth]_vars

\* A caller enters get_access_token in the current transition
Enters == Len(auth'.calls) = Len(auth.calls) + 1

Entered == auth'.calls[Len(auth'.calls)]

\* The claim's valid cached token: one was fetched, invalidate_token has not
\* been called since the last caller entered, and expiry is more than the
\* refresh buffer away
ValidCachedToken ==
    /\ auth.access_token # <<>>
    /\ ~auth.invalidated
    /\ auth.now + refresh_buffer < auth.expires_at[1]

\* C23: get_access_token fetches a new token exactly when there is no valid
\* cached token (none fetched, invalidated, or within 300 seconds of expiry);
\* otherwise it returns the cached token without fetching. The first call
\* after invalidate_token therefore fetches.
C23_FetchesIffNoValidToken ==
    [][Enters => /\ Entered.fetched <=> ~ValidCachedToken
                 /\ ~Entered.fetched => /\ Entered.pc = "returned"
                                         /\ Entered.token = auth.access_token]_vars

----------------------------------------------------------------------------
(* C24 *)

\* The decision row whose id the audit write of handler h returned is in rows
DecisionRowKept(h, rows) ==
    \E i \in DOMAIN rows :
        /\ rows[i].id = handlers[h].audit_id[1]
        /\ rows[i].operation \in DecisionOperations
        /\ rows[i].tool_name = handlers[h].media_buy_id

----------------------------------------------------------------------------
(* C25 *)

\* A Reject or Request Changes button is clicked in the current transition
ClicksModalButton ==
    /\ Len(handlers') = Len(handlers) + 1
    /\ handlers'[Len(handlers')].kind # "approve"

\* C25: a click on Reject or Request Changes only opens the modal. The click
\* itself, and every step of its handler up to and including the moment the
\* modal is submitted or cancelled, leave the stored statuses, the audit log
\* and the posted cards unchanged; a modal that is never submitted changes
\* nothing.
C25_ModalButtonsOnlyOpen ==
    [][/\ ClicksModalButton
            => (media_buys' = media_buys /\ audit_log' = audit_log /\ cards' = cards)
       /\ \A h \in DOMAIN handlers :
              (Steps(h) /\ handlers[h].pc = "modal")
                  => /\ media_buys' = media_buys
                     /\ audit_log' = audit_log
                     /\ cards' = cards
                     /\ handlers'[h].pc \in {HandlerSteps[1], "done"}]_vars

\* The Reject modal is open and nothing about the order has changed
C25_Witness ==
    \E h \in DOMAIN handlers :
        /\ handlers[h].pc = "modal"
        /\ handlers[h].kind = "reject"
        /\ Status(handlers[h].media_buy_id) = "pending"
        /\ cards[handlers[h].media_buy_id] = PendingCard
        /\ \A op \in DecisionOperations :
               EntriesOf(audit_log, handlers[h].media_buy_id, op) = {}

----------------------------------------------------------------------------
(* C26 *)

\* The response is a JSON object without a recommendation, or with one that
\* lacks its action, confidence or risk_level
LacksRequiredFields(response) ==
    /\ response.kind = "json"
    /\ "missing" \in {response.action, response.confidence, response.risk_level}

\* C26: when the response is parseable JSON that lacks required fields,
\* generate_summary returns the fallback: action review, confidence low,
\* risk level medium, and the risk flag that AI summarization failed
C26_MissingFieldsGiveFallback ==
    (Summarized /\ LacksRequiredFields(last_summary.response[1]))
        => /\ ~last_summary.result[1].raised
           /\ last_summary.result[1].recommendation =
                  [action |-> "review", confidence |-> "low", risk_level |-> "medium"]
           /\ last_summary.result[1].risk_flags =
                  <<"AI summarization failed - manual review required">>

----------------------------------------------------------------------------
(* C27 *)

\* No handler started for order o is still running (an open modal is not a
\* running handler; a returned handler keeps no order)
HandlersFinished(o) ==
    \A h \in DOMAIN handlers :
        handlers[h].media_buy_id = o => handlers[h].pc = "modal"

\* The stored status the card's header stands for
StatusShown(state) ==
    CASE state = "approved" -> "active"
      [] state = "rejected" -> "rejected"
      [] state = "changes_requested" -> "pending_changes"
      [] OTHER -> "pending"

\* C27: once every handler started for an order has finished, the decision
\* its card displays agrees with its stored status
C27_CardAgreesWithStatus ==
    \A o \in MediaBuyIds :
        (HandlersFinished(o) /\ cards[o].state \in {"approved", "rejected",
                                                     "changes_requested"})
            => Status(o) = StatusShown(cards[o].state)

----------------------------------------------------------------------------
(* Chat turns on the shared SlackAdvertisingAgent *)
(* The datastore, the backend and Slack work: every say succeeds.        *)

\* Nothing but chat changes
ChatOnly ==
    UNCHANGED <<dbvars, validation, last_log, last_summary, connections, auth,
                audit_log, next_uuid, cards, said, handlers, workflow,
                pending_cem_summary>>

Turn(c) == chat.turns[c]

\* A handler is between get_pending_cem_summary and its say of the card: it
\* does not await in between, no other coroutine runs
TurnPosting == \E c \in Conversations : Turn(c).pc = "posting"

\* handle_app_mention / handle_direct_message: `await agent.chat(...)`
handle_message(c) ==
    /\ ~TurnPosting
    /\ Turn(c).pc = "idle"
    /\ chat' = [chat EXCEPT !.turns[c].pc = "chat"]
    /\ ChatOnly

\* _handle_tool_calls: `await mcp.call_tool("create_media_buy", ...)` for the
\* order that becomes o
CallCreateMediaBuy(c, o) ==
    /\ ~TurnPosting
    /\ Turn(c).pc = "chat"
    /\ chat.created_in[o] = None
    /\ chat' = [chat EXCEPT !.turns[c].pc = "tool_call", !.turns[c].order = o,
                            !.created_in[o] = c]
    /\ ChatOnly

\* The hook after the tool call: the workflow runs for the order of the turn
TurnTriggersWorkflow(c, response) ==
    /\ ~TurnPosting
    /\ Turn(c).pc = "tool_call"
    /\ trigger_cem_workflow(Turn(c).order, TRUE, <<"ok", "ok">>, response)

\* The tool result is appended; the turn may call further tools
ToolCallReturns(c) ==
    /\ ~TurnPosting
    /\ Turn(c).pc = "tool_call"
    /\ workflow[Turn(c).order] # "created"
    /\ chat' = [chat EXCEPT !.turns[c].pc = "chat", !.turns[c].order = None]
    /\ ChatOnly

\* agent.chat returns: `await say(...)` of the response
ChatReturns(c) ==
    /\ ~TurnPosting
    /\ Turn(c).pc = "chat"
    /\ chat' = [chat EXCEPT !.turns[c].pc = "responding"]
    /\ ChatOnly

\* cem_summary = agent.get_pending_cem_summary(); without one the handler is
\* done
ReadPendingCemSummary(c) ==
    /\ ~TurnPosting
    /\ Turn(c).pc = "responding"
    /\ chat' = [chat EXCEPT
           !.turns[c].pc = IF pending_cem_summary = <<>> THEN "done" ELSE "posting",
           !.turns[c].cem_summary = pending_cem_summary]
    /\ ChatOnly

\* The slot is cleared and the card is said into the handler's conversation
TurnPostsCard(c) ==
    /\ Turn(c).pc = "posting"
    /\ PostPendingCemSummary(TRUE)

TurnDone(c) ==
    /\ Turn(c).pc = "posting"
    /\ pending_cem_summary = <<>>
    /\ chat' = [chat EXCEPT !.turns[c].pc = "done"]
    /\ ChatOnly

NextChat ==
    \/ \E c \in Conversations : handle_message(c)
    \/ \E c \in Conversations, o \in MediaBuyIds : CallCreateMediaBuy(c, o)
    \/ \E c \in Conversations, response \in {r \in WorkflowResponses : r.kind = "json"} :
            TurnTriggersWorkflow(c, response)
    \/ \E c \in Conversations : ToolCallReturns(c)
    \/ \E c \in Conversations : ChatReturns(c)
    \/ \E c \in Conversations : ReadPendingCemSummary(c)
    \/ \E c \in Conversations : TurnPostsCard(c)
    \/ \E c \in Conversations : TurnDone(c)

SpecChat == Init /\ [][NextChat]_vars

\* The conversations whose handler said the card of order o
PostedIn(o) ==
    {c \in Conversations :
        /\ Turn(c).pc = "done"
        /\ Turn(c).cem_summary # <<>>
        /\ Turn(c).cem_summary[1].media_buy_id = o}

TurnsOver == \A c \in Conversations : Turn(c).pc \in {"idle", "done"}

\* C28: once the chat turns are over, every order whose workflow run
\* completed has had its card posted exactly once, by the handler of the
\* conversation that created it
C28_CardPostedOnceWhereCreated ==
    TurnsOver =>
        \A o \in MediaBuyIds :
            workflow[o] = "submitted" => PostedIn(o) = {chat.created_in[o]}

----------------------------------------------------------------------------
(* C29 *)

\* A workflow run that has reached its post goes on to make it: the webhook
\* coroutine is resumed by the event loop, and the chat turn that ran the
\* workflow ends in get_pending_cem_summary
SpecWorkflowRunsFair ==
    /\ SpecWorkflowRuns
    /\ WF_vars(\E o \in MediaBuyIds, posted \in BOOLEAN : WebhookPost(o, posted))
    /\ WF_vars(\E posted \in BOOLEAN : PostPendingCemSummary(posted))

ApprovalRequested(o) == EntriesOf(audit_log, o, "cem_approval_requested") # {}

CardPosted(o) == cards[o].state # "none"

\* C29: an order for which the workflow has written a cem_approval_requested
\* entry eventually has its approval card posted, and the webhook never
\* answers success for an order whose request is logged and whose card is
\* not posted
C29_RequestedOrdersGetCard ==
    /\ \A o \in MediaBuyIds : ApprovalRequested(o) ~> CardPosted(o)
    /\ [](\A o \in MediaBuyIds :
             (workflow[o] = "http_200" /\ ApprovalRequested(o)) => CardPosted(o))


----------------------------------------------------------------------------
(* C30 *)

\* AdCPValidator.VALID_FORMAT_IDS: the format IDs create_media_buy accepts
VALID_FORMAT_IDS ==
    {"display_300x250", "display_728x90", "display_160x600",
     "video_preroll_640x480", "video_midroll_1280x720",
     "video_outstream_1920x1080",
     "native_feed", "native_content", "native_app_install"}

\* The format check of AdCPValidator.validate_packages on one format ID
AcceptedAtCreation(format_id) == format_id \in VALID_FORMAT_IDS

\* C30: every format ID accepted at order creation belongs to the allow-list
\* of the formats_exist check: whenever the check's lookup returns, each
\* attached format that creation accepts is in the check's allow-list, and
\* the check names no format that creation accepts as invalid.
C30_AcceptedFormatsAllowed ==
    (Validated /\ ~Raised(3)) =>
        LET check == validation.result.checks[3]
            attached == AttachedFormats(validation.media_buy_id)
        IN  /\ \A f \in Range(attached) :
                  AcceptedAtCreation(f) => f \in valid_formats
            /\ ~check.passed =>
                  \A f \in Range(check.invalid) : ~AcceptedAtCreation(f)

====
